---- MODULE Spec2Model ----
(***************************************************************************)
(* Model of the model-comparison pipeline I.PY: the PowerLawRegressor      *)
(* estimator, per-file aggregation, feature engineering, the grouped       *)
(* 5-fold cross-validation of the 13 registered models and the report.     *)
(***************************************************************************)
EXTENDS Integers, Sequences, FiniteSets, TLC

VARIABLES
    est, pl_call,
    files, pc, exit, file_id, nread, per_file_aggs, combined, before,
    mi, cv_res, results, report,
    heap, registry, tasks

plVars   == <<est, pl_call>>
loadVars == <<files, pc, exit, file_id, nread, per_file_aggs, combined, before>>
evalVars == <<mi, cv_res, results, report>>
parVars  == <<heap, registry, tasks>>
vars     == <<est, pl_call, files, pc, exit, file_id, nread, per_file_aggs,
              combined, before, mi, cv_res, results, report, heap, registry, tasks>>

-----------------------------------------------------------------------------
(* Bounds of the model.                                                    *)
MaxPLRows == 2

-----------------------------------------------------------------------------
(* Floating-point values: a finite rational n/d in lowest terms, NaN, or   *)
(* an infinity.  Comparisons with NaN are false, as in IEEE 754.           *)
RECURSIVE Gcd(_, _)
Gcd(a, b) == IF b = 0 THEN a ELSE Gcd(b, a % b)

Abs(n) == IF n < 0 THEN -n ELSE n

Rat(n, d) ==
    LET g == Gcd(Abs(n), d)
    IN  [k |-> "num", n |-> n \div g, d |-> d \div g]

Num(n) == [k |-> "num", n |-> n, d |-> 1]
NaN    == [k |-> "nan", n |-> 0, d |-> 1]
NegInf == [k |-> "-inf", n |-> 0, d |-> 1]
PosInf == [k |-> "inf", n |-> 0, d |-> 1]
Unset  == [k |-> "unset", n |-> 0, d |-> 1]

IsNaN(x)    == x.k = "nan"
IsFinite(x) == x.k \in {"num", "sqrt", "log"}

\* x > 0 as numpy evaluates it: False for NaN and -inf, True for +inf.
GtZero(x) == (x.k = "num" /\ x.n > 0) \/ x.k = "inf"

\* x <= y on floats that are finite or NaN: False when either is NaN.
FLeq(x, y) == x.k = "num" /\ y.k = "num" /\ x.n * y.d <= y.n * x.d

FLess(x, y) == x.k = "num" /\ y.k = "num" /\ x.n * y.d < y.n * x.d

RECURSIVE IPow(_, _)
IPow(b, e) == IF e = 0 THEN 1 ELSE b * IPow(b, e - 1)

\* np.power(r, b) for finite r and an exponent that is NaN or a natural:
\* pow(1, NaN) = 1 and pow(x, 0) = 1, otherwise NaN propagates.
FPow(r, b) ==
    IF r.k = "num" /\ r.n = r.d THEN Num(1)
    ELSE IF b.k = "num" /\ b.n = 0 THEN Num(1)
    ELSE IF r.k # "num" \/ b.k # "num" THEN NaN
    ELSE Rat(IPow(r.n, b.n), IPow(r.d, b.n))

FMul(a, x) ==
    IF a.k # "num" \/ x.k # "num" THEN NaN
    ELSE Rat(a.n * x.n, a.d * x.d)

-----------------------------------------------------------------------------
(* Sequence helpers.                                                       *)
RECURSIVE Pick(_, _, _)
\* s[mask]: the elements of s at the positions in keep, in order, from i on.
Pick(s, keep, i) ==
    IF i > Len(s) THEN <<>>
    ELSE IF i \in keep THEN <<s[i]>> \o Pick(s, keep, i + 1)
    ELSE Pick(s, keep, i + 1)

RECURSIVE SeqsUpTo(_, _)
SeqsUpTo(S, n) ==
    IF n = 0 THEN {<<>>}
    ELSE LET shorter == SeqsUpTo(S, n - 1)
         IN  shorter \cup {Append(s, x) : s \in {t \in shorter : Len(t) = n - 1}, x \in S}

-----------------------------------------------------------------------------
(* PowerLawRegressor (I.PY 24-50).                                         *)

\* Number of parameters of the fitted curve a * r^b.
NParams == 2

\* mask = (r > 0) & np.isfinite(y)
Mask(X, y) == {i \in 1..Len(X) : GtZero(X[i]) /\ IsFinite(y[i])}

\* The parameter pairs (alpha, beta) a converged curve_fit returns here.
Popts == {<<Num(2), Num(1)>>, <<Num(1), Num(2)>>}

\* scipy.optimize.curve_fit on the masked rows: it raises when there are
\* fewer data points than parameters (empty input included), and otherwise
\* either returns popt or raises RuntimeError when maxfev is exhausted.
CurveFit(rs, ys) ==
    IF Len(rs) < NParams
    THEN {[raised |-> TRUE, popt |-> <<NaN, NaN>>]}
    ELSE {[raised |-> TRUE, popt |-> <<NaN, NaN>>]}
         \cup {[raised |-> FALSE, popt |-> p] : p \in Popts}

\* Faulty variant: the except branch does nothing, so a failed fit keeps what the
\* instance held before.
FitKeepsOld(self, res) ==
    IF res.raised THEN self
    ELSE [alpha_ |-> res.popt[1], beta_ |-> res.popt[2]]

\* The try/except of fit: popt on success, (nan, nan) on any exception.
FitAssign(self, res) ==
    IF res.raised THEN [alpha_ |-> NaN, beta_ |-> NaN]
    ELSE [alpha_ |-> res.popt[1], beta_ |-> res.popt[2]]

\* The set of estimator states fit(X, y) can leave, with the curve_fit outcome.
FitOutcomes(self, X, y) ==
    LET mask == Mask(X, y)
    IN  {[est |-> FitAssign(self, res), failed |-> res.raised, valid |-> Cardinality(mask)] :
            res \in CurveFit(Pick(X, mask, 1), Pick(y, mask, 1))}

\* Faulty variant: predict cleans its output with nan_to_num.
PredictNanToNum(self, X) ==
    [i \in 1..Len(X) |->
        LET p == FMul(self.alpha_, FPow(X[i], self.beta_))
        IN  IF IsNaN(p) THEN Num(0) ELSE p]

\* predict: alpha_ * np.power(r, beta_) over all rows, no mask.
PredictRows(self, X) ==
    [i \in 1..Len(X) |-> FMul(self.alpha_, FPow(X[i], self.beta_))]

\* predict on an instance that was never fitted raises AttributeError.
HasParams(self) == self.alpha_.k # "unset" /\ self.beta_.k # "unset"

Unfit == [alpha_ |-> Unset, beta_ |-> Unset]

-----------------------------------------------------------------------------
(* The estimator on its own: any sequence of fit and predict calls.        *)
RVals == {Num(-1), Num(0), Num(1), Num(2)}
YVals == {Num(3), NaN}

PLData == {d \in SeqsUpTo(RVals \X YVals, MaxPLRows) : TRUE}

Col(d, c) == [i \in 1..Len(d) |-> d[i][c]]

\* The estimator's state: unfit, fit-converged or fit-failed.
EstState(self) ==
    IF ~HasParams(self) THEN "unfit"
    ELSE IF IsNaN(self.alpha_) /\ IsNaN(self.beta_) THEN "fit-failed"
    ELSE IF IsFinite(self.alpha_) /\ IsFinite(self.beta_) THEN "fit-converged"
    ELSE "mixed"

NoCall == [op |-> "none", X |-> <<>>, y |-> <<>>, prev |-> "unfit", valid |-> 0,
           failed |-> FALSE, raised |-> FALSE, out |-> <<>>]

IdleLoad ==
    /\ files = <<>> /\ pc = "idle" /\ exit = "none" /\ file_id = 0 /\ nread = 0
    /\ per_file_aggs = <<>> /\ combined = <<>> /\ before = 0

\* cross_validate has not returned anything yet.
NoCV == [model |-> 0, splits |-> <<>>, test_mse |-> <<>>, test_r2 |-> <<>>,
         fit_error |-> <<>>, score_error |-> <<>>, curve_failed |-> <<>>]

IdleEval == mi = 0 /\ cv_res = NoCV /\ results = <<>> /\ report = <<>>

IdlePar == heap = <<>> /\ registry = <<>> /\ tasks = <<>>

InitPL ==
    /\ est = Unfit
    /\ pl_call = NoCall
    /\ IdleLoad /\ IdleEval /\ IdlePar

PLFit ==
    \E d \in PLData :
        \E o \in FitOutcomes(est, Col(d, 1), Col(d, 2)) :
            /\ est' = o.est
            /\ pl_call' = [op |-> "fit", X |-> Col(d, 1), y |-> Col(d, 2), prev |-> EstState(est),
                           valid |-> o.valid, failed |-> o.failed, raised |-> FALSE,
                           out |-> <<>>]
            /\ UNCHANGED <<loadVars, evalVars, parVars>>

PLPredict ==
    \E X \in SeqsUpTo(RVals, MaxPLRows) :
        /\ pl_call' = [pl_call EXCEPT !.op = "predict", !.X = X, !.prev = EstState(est),
                          !.raised = ~HasParams(est),
                          !.out = IF HasParams(est) THEN PredictRows(est, X) ELSE <<>>]
        /\ UNCHANGED <<est, loadVars, evalVars, parVars>>

NextPL == PLFit \/ PLPredict

SpecPL == InitPL /\ [][NextPL]_vars

-----------------------------------------------------------------------------
(* The pipeline: discovery, per-file aggregation, combination and feature  *)
(* engineering (I.PY 65-116).                                              *)

Covariates == {"slippage", "depth", "spread", "imbalance", "volatility", "hour_of_day"}

usecols == {"size"} \cup Covariates

\* A raw record of an enhanced-slippage file.
RawRow(size, depth) ==
    [size |-> size, slippage |-> size + depth, depth |-> depth, spread |-> 1,
     imbalance |-> 0, volatility |-> 2 * size, hour_of_day |-> 9]

File(rows) == [columns |-> usecols, rows |-> rows]

\* A file from which the column depth is missing.
MalformedFile == [columns |-> usecols \ {"depth"}, rows |-> <<>>]

RECURSIVE SortedSeq(_)
\* The members of a finite set of integers in ascending order.
SortedSeq(S) ==
    IF S = {} THEN <<>>
    ELSE LET lo == CHOOSE x \in S : \A y \in S : x <= y
         IN  <<lo>> \o SortedSeq(S \ {lo})

RECURSIVE SumCol(_, _, _)
\* The sum of column c over the rows at the positions in idx.
SumCol(rows, idx, c) ==
    IF idx = {} THEN 0
    ELSE LET i == CHOOSE j \in idx : TRUE
         IN  rows[i][c] + SumCol(rows, idx \ {i}, c)

\* Faulty variant: the mean is taken over all rows of the file, not over the bucket.
MeanColOverFile(rows, idx, c) ==
    Rat(SumCol(rows, DOMAIN rows, c), Len(rows))

\* "mean" of one column over one size bucket.
MeanCol(rows, idx, c) == Rat(SumCol(rows, idx, c), Cardinality(idx))

\* df.groupby("size").agg({... "mean"}).reset_index(): one row per distinct
\* size, in ascending order of size, each covariate averaged over the bucket.
GroupByMean(rows) ==
    LET sizes == SortedSeq({rows[i].size : i \in DOMAIN rows})
    IN  [j \in 1..Len(sizes) |->
            LET idx == {i \in DOMAIN rows : rows[i].size = sizes[j]}
            IN  [size        |-> Num(sizes[j]),
                 slippage    |-> MeanCol(rows, idx, "slippage"),
                 depth       |-> MeanCol(rows, idx, "depth"),
                 spread      |-> MeanCol(rows, idx, "spread"),
                 imbalance   |-> MeanCol(rows, idx, "imbalance"),
                 volatility  |-> MeanCol(rows, idx, "volatility"),
                 hour_of_day |-> MeanCol(rows, idx, "hour_of_day")]]

\* agg["file_id"] = file_id
TagFile(agg, id) ==
    [j \in 1..Len(agg) |->
        [size |-> agg[j].size, slippage |-> agg[j].slippage, depth |-> agg[j].depth,
         spread |-> agg[j].spread, imbalance |-> agg[j].imbalance,
         volatility |-> agg[j].volatility, hour_of_day |-> agg[j].hour_of_day,
         file_id |-> id]]

RECURSIVE Concat(_)
\* pd.concat(per_file_aggs, ignore_index=True)
Concat(parts) ==
    IF parts = <<>> THEN <<>> ELSE Head(parts) \o Concat(Tail(parts))

FDiv(x, y) ==
    IF x.k # "num" \/ y.k # "num" \/ y.n = 0 THEN NaN
    ELSE IF y.n < 0 THEN Rat(-(x.n * y.d), x.d * (-y.n))
    ELSE Rat(x.n * y.d, x.d * y.n)

\* np.sqrt: NaN below zero; the root of a finite value is kept symbolically.
FSqrt(x) ==
    IF x.k # "num" \/ x.n < 0 THEN NaN
    ELSE [k |-> "sqrt", n |-> x.n, d |-> x.d]

\* np.log: NaN below zero, -inf at zero.
FLog(x) ==
    IF x.k # "num" \/ x.n < 0 THEN NaN
    ELSE IF x.n = 0 THEN NegInf
    ELSE [k |-> "log", n |-> x.n, d |-> x.d]

\* Faulty variant: the filter compares with >= and keeps rows of depth zero.
KeepNonNegative(row) == row.depth.k = "num" /\ row.depth.n >= 0

\* combined["depth"] > 0
KeepRow(row) == GtZero(row.depth)

\* The three derived columns of a surviving row.
WithFeatures(row) ==
    [size |-> row.size, slippage |-> row.slippage, depth |-> row.depth,
     spread |-> row.spread, imbalance |-> row.imbalance,
     volatility |-> row.volatility, hour_of_day |-> row.hour_of_day,
     file_id |-> row.file_id,
     sqrt_xV  |-> FSqrt(FDiv(row.size, row.depth)),
     x_over_V |-> FDiv(row.size, row.depth),
     log_x    |-> FLog(row.size)]

Abort(err) == pc' = "aborted" /\ exit' = err

\* Faulty variant: the empty list is not checked and the loop over files is entered.
DiscoverNoCheck ==
    /\ pc = "discover"
    /\ pc' = "read"
    /\ UNCHANGED <<files, exit, file_id, nread, per_file_aggs, combined, before,
                   plVars, evalVars, parVars>>

\* files = glob.glob(...); raise FileNotFoundError when the list is empty.
Discover ==
    /\ pc = "discover"
    /\ IF files = <<>>
       THEN Abort("FileNotFoundError")
       ELSE pc' = "read" /\ exit' = exit
    /\ UNCHANGED <<files, file_id, nread, per_file_aggs, combined, before,
                   plVars, evalVars, parVars>>

\* Faulty variant: a file that lacks a column is skipped and the loop goes on.
ReadFileSkipsMalformed ==
    /\ pc = "read"
    /\ file_id < Len(files)
    /\ nread' = nread + 1
    /\ LET f == files[file_id + 1]
       IN  per_file_aggs' =
              IF ~(usecols \subseteq f.columns)
              THEN Append(per_file_aggs, <<>>)
              ELSE Append(per_file_aggs, TagFile(GroupByMean(f.rows), file_id))
    /\ file_id' = file_id + 1
    /\ UNCHANGED <<files, pc, exit, combined, before, plVars, evalVars, parVars>>

\* One iteration of the loop over enumerate(files): read_csv raises
\* ValueError when a column of usecols is missing from the file.
ReadFile ==
    /\ pc = "read"
    /\ file_id < Len(files)
    /\ nread' = nread + 1
    /\ LET f == files[file_id + 1]
       IN  IF ~(usecols \subseteq f.columns)
           THEN /\ Abort("ValueError: usecols")
                /\ UNCHANGED <<file_id, per_file_aggs>>
           ELSE /\ per_file_aggs' = Append(per_file_aggs, TagFile(GroupByMean(f.rows), file_id))
                /\ file_id' = file_id + 1
                /\ UNCHANGED <<pc, exit>>
    /\ UNCHANGED <<files, combined, before, plVars, evalVars, parVars>>

\* combined = pd.concat(per_file_aggs, ignore_index=True), after the loop.
Combine ==
    /\ pc = "read"
    /\ file_id = Len(files)
    /\ combined' = Concat(per_file_aggs)
    /\ pc' = "features"
    /\ UNCHANGED <<files, exit, file_id, nread, per_file_aggs, before,
                   plVars, evalVars, parVars>>

\* Feature engineering: the depth filter and the derived columns.
FeatureEngineering ==
    /\ pc = "features"
    /\ before' = Len(combined)
    /\ combined' = LET kept == SelectSeq(combined, KeepRow)
                   IN  [j \in 1..Len(kept) |-> WithFeatures(kept[j])]
    /\ pc' = "models"
    /\ UNCHANGED <<files, exit, file_id, nread, per_file_aggs,
                   plVars, evalVars, parVars>>

-----------------------------------------------------------------------------
(* The model registry (I.PY 109-141).                                      *)
feature_cols == {"sqrt_xV", "x_over_V", "log_x", "spread", "depth", "imbalance",
                 "volatility", "hour_of_day"}

Model(name, kind, feats) == [name |-> name, kind |-> kind, feats |-> feats]

models ==
    << Model("Square-root",   "sklearn",  {"sqrt_xV"}),
       Model("Linear x/V",    "sklearn",  {"x_over_V"}),
       Model("Logarithmic",   "sklearn",  {"log_x"}),
       Model("Quadratic",     "sklearn",  {"size"}),
       Model("PowerLaw x/V",  "powerlaw", {"x_over_V"}),
       Model("Poly x/V^2",    "sklearn",  {"x_over_V"}),
       Model("ElasticNet",    "sklearn",  feature_cols),
       Model("Ridge",         "sklearn",  feature_cols),
       Model("RandomForest",  "sklearn",  feature_cols),
       Model("GradientBoost", "sklearn",  feature_cols),
       Model("KNeighbors",    "sklearn",  feature_cols),
       Model("SVR",           "sklearn",  feature_cols),
       Model("XGBoost",       "sklearn",  feature_cols) >>

NModels == Len(models)

-----------------------------------------------------------------------------
(* GroupKFold(n_splits=5) over groups = combined["file_id"] (I.PY 116,146).*)
NSplits == 5

Groups(rows) == {rows[i].file_id : i \in DOMAIN rows}

GroupSize(rows, g) == Cardinality({i \in DOMAIN rows : rows[i].file_id = g})

RECURSIVE BySizeDesc(_, _)
\* np.argsort(n_samples_per_group)[::-1]: the groups by decreasing number of
\* rows, the later group first among groups of equal size.
BySizeDesc(rows, gs) ==
    IF gs = {} THEN <<>>
    ELSE LET g == CHOOSE x \in gs : \A y \in gs :
                      \/ GroupSize(rows, x) > GroupSize(rows, y)
                      \/ (GroupSize(rows, x) = GroupSize(rows, y) /\ x >= y)
         IN  <<g>> \o BySizeDesc(rows, gs \ {g})

\* np.argmin(n_samples_per_fold): the first of the lightest folds.
Lightest(load) ==
    CHOOSE f \in DOMAIN load : \A h \in DOMAIN load :
        load[f] < load[h] \/ (load[f] = load[h] /\ f <= h)

RECURSIVE AssignFolds(_, _, _, _, _)
\* The greedy loop of GroupKFold: each group, largest first, goes to the
\* fold that holds the fewest rows so far.
AssignFolds(rows, order, k, load, g2f) ==
    IF k > Len(order) THEN g2f
    ELSE LET f == Lightest(load)
         IN  AssignFolds(rows, order, k + 1,
                         [load EXCEPT ![f] = @ + GroupSize(rows, order[k])],
                         [g2f EXCEPT ![order[k]] = f])

GroupToFold(rows) ==
    AssignFolds(rows, BySizeDesc(rows, Groups(rows)), 1,
                [f \in 1..NSplits |-> 0], [g \in Groups(rows) |-> 0])

\* Faulty variant: plain KFold, which deals the rows out by position and ignores
\* the groups.
TestFoldsByPosition(rows) ==
    [f \in 1..NSplits |-> {i \in DOMAIN rows : ((i - 1) % NSplits) + 1 = f}]

\* The test rows of each of the 5 folds.
TestFolds(rows) ==
    LET g2f == GroupToFold(rows)
    IN  [f \in 1..NSplits |-> {i \in DOMAIN rows : g2f[rows[i].file_id] = f}]

\* gkf.split: (train, test) row positions per fold.
Splits(rows) ==
    LET test == TestFolds(rows)
    IN  [f \in 1..NSplits |-> [train |-> DOMAIN rows \ test[f], test |-> test[f]]]

-----------------------------------------------------------------------------
(* Scoring of one fold (I.PY 147-164).                                     *)

FNeg(x) == IF x.k # "num" THEN x ELSE [k |-> "num", n |-> -x.n, d |-> x.d]

FAdd(x, y) ==
    IF x.k # "num" \/ y.k # "num" THEN NaN
    ELSE Rat(x.n * y.d + y.n * x.d, x.d * y.d)

RECURSIVE FSum(_)
FSum(xs) == IF xs = <<>> THEN Num(0) ELSE FAdd(Head(xs), FSum(Tail(xs)))

\* np.mean
FMean(xs) == FMul(FSum(xs), Rat(1, Len(xs)))

\* np.std: the root of mean(x^2) - mean(x)^2, kept symbolically.
FStd(xs) ==
    LET m  == FMean(xs)
        m2 == FMean([i \in DOMAIN xs |-> FMul(xs[i], xs[i])])
        v  == FAdd(m2, FNeg(FMul(m, m)))
    IN  IF v.k # "num" THEN NaN ELSE [k |-> "sqrt", n |-> v.n, d |-> v.d]

\* The numeric value of a fold's error stands for the outcome of a numerical
\* regression: a fixed function of the model and of the fold's sizes.
FoldMSE(m, ntrain, ntest) == Num((3 * m + ntrain + 2 * ntest) % 5)

FoldR2(m, ntrain, ntest) == Rat(3 - ((m + ntrain + ntest) % 6), 4)

\* Input validation of the library estimators: fit and predict raise
\* ValueError on a feature that is NaN or infinite.
AllFinite(rows, idx, feats) ==
    \A i \in idx : \A c \in feats : IsFinite(rows[i][c])

ColumnOf(rows, idx, c) ==
    LET pos == SortedSeq(idx)
    IN  [j \in 1..Len(pos) |-> rows[pos[j]][c]]

\* The estimator object a fold works on, as fit leaves it: the library
\* estimators raise on a non-finite training feature; the power-law
\* estimator never raises and keeps alpha_, beta_.
FitEstimator(m, self, rows, train) ==
    IF models[m].kind = "powerlaw"
    THEN {[fitted |-> TRUE, fit_error |-> FALSE, curve_failed |-> o.failed,
           est |-> o.est, ntrain |-> Cardinality(train)] :
             o \in FitOutcomes(self.est, ColumnOf(rows, train, "x_over_V"),
                                         ColumnOf(rows, train, "slippage"))}
    ELSE {[fitted |-> TRUE, fit_error |-> ~AllFinite(rows, train, models[m].feats),
           curve_failed |-> FALSE, est |-> self.est, ntrain |-> Cardinality(train)]}

\* Scoring raises when the library estimator's predict meets a non-finite
\* test feature, or when the metric meets a non-finite prediction.
ScoreError(m, obj, rows, test) ==
    IF models[m].kind = "powerlaw"
    THEN LET pred == PredictRows(obj.est, ColumnOf(rows, test, "x_over_V"))
         IN  \E i \in DOMAIN pred : ~IsFinite(pred[i])
    ELSE ~AllFinite(rows, test, models[m].feats)

\* Faulty variant: an exception in a fold's fit or scoring is swallowed and the
\* fold is scored as if nothing had happened.
FoldResultIgnoringErrors(m, obj, rows, test) ==
    [fit_error    |-> obj.fit_error,
     score_error  |-> ~obj.fit_error /\ ScoreError(m, obj, rows, test),
     curve_failed |-> obj.curve_failed,
     test_mse     |-> FNeg(FoldMSE(m, obj.ntrain, Cardinality(test))),
     test_r2      |-> FoldR2(m, obj.ntrain, Cardinality(test))]

\* The scores of one fold from the fitted object.  error_score is left at
\* its default np.nan: a fold whose fit or scoring raised scores NaN for both
\* metrics.  'mse' is the negated error; r2 of fewer than two test samples
\* is NaN.
FoldResult(m, obj, rows, test) ==
    LET serr == ~obj.fit_error /\ ScoreError(m, obj, rows, test)
        bad  == obj.fit_error \/ serr
    IN  [fit_error    |-> obj.fit_error,
         score_error  |-> serr,
         curve_failed |-> obj.curve_failed,
         test_mse     |-> IF bad THEN NaN
                          ELSE FNeg(FoldMSE(m, obj.ntrain, Cardinality(test))),
         test_r2      |-> IF bad \/ Cardinality(test) < 2 THEN NaN
                          ELSE FoldR2(m, obj.ntrain, Cardinality(test))]

\* An estimator object nobody has fitted.
Fresh == [fitted |-> FALSE, fit_error |-> FALSE, curve_failed |-> FALSE,
          est |-> Unfit, ntrain |-> 0]

\* sklearn.base.clone: a new unfitted estimator with the same parameters.
Clone(obj) == Fresh

\* _fit_and_score of one fold: fit a clone on the training rows, score it
\* on the test rows.
FoldOutcomes(m, rows, split) ==
    {FoldResult(m, obj, rows, split.test) :
        obj \in FitEstimator(m, Clone(Fresh), rows, split.train)}

\* The array cross_validate returns for one key, in fold order.
Gather(splits, r) ==
    [splits       |-> splits,
     test_mse     |-> [f \in 1..NSplits |-> r[f].test_mse],
     test_r2      |-> [f \in 1..NSplits |-> r[f].test_r2],
     fit_error    |-> [f \in 1..NSplits |-> r[f].fit_error],
     score_error  |-> [f \in 1..NSplits |-> r[f].score_error],
     curve_failed |-> [f \in 1..NSplits |-> r[f].curve_failed]]

WithModel(m, g) ==
    [model |-> m, splits |-> g.splits, test_mse |-> g.test_mse, test_r2 |-> g.test_r2,
     fit_error |-> g.fit_error, score_error |-> g.score_error,
     curve_failed |-> g.curve_failed]

\* The results cross_validate can return for model m, one choice of
\* outcome per fold.
CrossValidate(m, rows) ==
    LET splits == Splits(rows)
        per    == [f \in 1..NSplits |-> FoldOutcomes(m, rows, splits[f])]
    IN  {WithModel(m, Gather(splits, r)) :
            r \in {c \in [1..NSplits -> UNION {per[f] : f \in 1..NSplits}] :
                      \A f \in 1..NSplits : c[f] \in per[f]}}

\* The row appended to results for one model.
ResultRow(cv) ==
    [model         |-> models[cv.model].name,
     mean_test_mse |-> FNeg(FMean(cv.test_mse)),
     std_test_mse  |-> FStd(cv.test_mse),
     mean_test_r2  |-> FMean(cv.test_r2),
     std_test_r2   |-> FStd(cv.test_r2)]

\* The 13 estimator instances of the registry are constructed, unfitted;
\* the evaluation loop starts at the first of them.
DefineModels ==
    /\ pc = "models"
    /\ registry' = [m \in 1..NModels |-> m]
    /\ heap' = [o \in 1..NModels |-> Fresh]
    /\ mi' = 1
    /\ pc' = "eval"
    /\ UNCHANGED <<files, exit, file_id, nread, per_file_aggs, combined, before,
                   cv_res, results, report, tasks, plVars>>

\* What follows cross_validate in the loop body: it raises ValueError when
\* the fit failed in every fold, otherwise the model's row is appended.
Finish(cv) ==
    /\ cv_res' = cv
    /\ IF \A f \in 1..NSplits : cv.fit_error[f]
       THEN /\ Abort("ValueError: all fits failed")
            /\ UNCHANGED <<mi, results>>
       ELSE /\ results' = Append(results, ResultRow(cv))
            /\ mi' = mi + 1
            /\ UNCHANGED <<pc, exit>>

\* One iteration of the loop over models.items().  GroupKFold raises
\* ValueError when there are fewer groups than splits; cross_validate
\* raises ValueError when the fit failed in every fold.
EvaluateModel ==
    /\ pc = "eval"
    /\ mi <= NModels
    /\ IF Cardinality(Groups(combined)) < NSplits
       THEN /\ Abort("ValueError: n_splits")
            /\ UNCHANGED <<mi, cv_res, results>>
       ELSE \E cv \in CrossValidate(mi, combined) : Finish(cv)
    /\ UNCHANGED <<files, file_id, nread, per_file_aggs, combined, before,
                   report, plVars, parVars>>

-----------------------------------------------------------------------------
(* The report (I.PY 181-183).                                              *)
RECURSIVE InsertSorted(_, _)
InsertSorted(sorted, row) ==
    IF sorted = <<>> THEN <<row>>
    ELSE IF FLess(row.mean_test_mse, Head(sorted).mean_test_mse)
         THEN <<row>> \o sorted
         ELSE <<Head(sorted)>> \o InsertSorted(Tail(sorted), row)

RECURSIVE SortRows(_)
SortRows(rows) ==
    IF rows = <<>> THEN <<>>
    ELSE InsertSorted(SortRows(SubSeq(rows, 1, Len(rows) - 1)), rows[Len(rows)])

IsNaNRow(row) == IsNaN(row.mean_test_mse)

IsNumRow(row) == ~IsNaN(row.mean_test_mse)

\* Faulty variant: the results are printed in registry order.
Unsorted(rows) == rows

\* DataFrame.sort_values('mean_test_mse'): ascending, NaN rows last.
SortValues(rows) == SortRows(SelectSeq(rows, IsNumRow)) \o SelectSeq(rows, IsNaNRow)

\* After the last model: sort, print, exit normally.
Report ==
    /\ pc = "eval"
    /\ mi = NModels + 1
    /\ report' = SortValues(results)
    /\ pc' = "done"
    /\ exit' = "ok"
    /\ UNCHANGED <<files, file_id, nread, per_file_aggs, combined, before,
                   mi, cv_res, results, plVars, parVars>>

-----------------------------------------------------------------------------
(* The loading stages on their own, over files of a few raw records.       *)
MaxRawRows == 2

AggRows == {RawRow(s, d) : s \in {0, 2}, d \in {-1, 0, 2}}

AggFiles == {File(rows) : rows \in SeqsUpTo(AggRows, MaxRawRows)} \cup {MalformedFile}

StartLoad(fs) ==
    /\ files = fs /\ pc = "discover" /\ exit = "none" /\ file_id = 0 /\ nread = 0
    /\ per_file_aggs = <<>> /\ combined = <<>> /\ before = 0

InitAgg ==
    /\ \E fs \in {<<>>} \cup {<<f>> : f \in AggFiles} \cup {<<f, g>> : f \in AggFiles, g \in AggFiles} :
          StartLoad(fs)
    /\ est = Unfit /\ pl_call = NoCall
    /\ IdleEval /\ IdlePar

NextAgg == Discover \/ ReadFile \/ Combine \/ FeatureEngineering

SpecAgg == InitAgg /\ [][NextAgg]_vars

-----------------------------------------------------------------------------
(* The whole pipeline over a list of discovered files.                     *)
MaxFiles == 6

\* One bucket; a bucket of size 0 beside a two-record bucket; a file whose
\* only bucket has depth 0; a file without the depth column.
FileChoices ==
    { File(<<RawRow(1, 2)>>),
      File(<<RawRow(0, 2), RawRow(2, 1), RawRow(2, 3)>>),
      File(<<RawRow(1, 0)>>),
      MalformedFile }

Init ==
    /\ \E fs \in SeqsUpTo(FileChoices, MaxFiles) : StartLoad(fs)
    /\ est = Unfit /\ pl_call = NoCall
    /\ IdleEval /\ IdlePar

Next ==
    \/ Discover \/ ReadFile \/ Combine \/ FeatureEngineering \/ DefineModels
    \/ EvaluateModel \/ Report

Spec == Init /\ [][Next]_vars

\* C3: after every fit call, whatever the estimator held before and whatever
\* failure curve_fit hit, fit has returned without raising; a failed fit
\* leaves alpha_ and beta_ both NaN (the parameters of an earlier converged
\* fit are not kept), a converged fit leaves both defined, and the estimator
\* is in exactly one of the states fit-converged and fit-failed.
C3_FitLeavesConvergedOrFailed ==
    pl_call.op = "fit" =>
        /\ ~pl_call.raised
        /\ pl_call.failed => (IsNaN(est.alpha_) /\ IsNaN(est.beta_))
        /\ ~pl_call.failed => (IsFinite(est.alpha_) /\ IsFinite(est.beta_))
        /\ (\A i \in 1..Len(pl_call.X) : ~GtZero(pl_call.X[i]) \/ ~IsFinite(pl_call.y[i]))
              => pl_call.failed
        /\ EstState(est) \in {"fit-converged", "fit-failed"}

\* A fit that failed by non-convergence on an instance that held converged
\* parameters.
C3_Witness ==
    /\ pl_call.op = "fit" /\ pl_call.failed
    /\ pl_call.prev = "fit-converged"
    /\ pl_call.valid >= NParams

\* C4: when no row of the fitted data is valid (r <= 0 or y non-finite in
\* every row), fit leaves both parameters NaN without raising, and a predict
\* that follows returns, without raising, one NaN per row of its X.
C4_ZeroValidRowsGiveNaN ==
    (pl_call.op \in {"fit", "predict"} /\ EstState(est) # "unfit" /\ pl_call.valid = 0) =>
        /\ IsNaN(est.alpha_) /\ IsNaN(est.beta_)
        /\ ~pl_call.raised
        /\ pl_call.op = "predict" =>
              /\ Len(pl_call.out) = Len(pl_call.X)
              /\ \A i \in 1..Len(pl_call.X) : IsNaN(pl_call.out[i])

\* A predict over two rows, one of them r = 1, after a fit on rows that are
\* all invalid.
C4_Witness ==
    /\ pl_call.op = "predict" /\ pl_call.valid = 0 /\ EstState(est) = "fit-failed"
    /\ Len(pl_call.y) > 0
    /\ Len(pl_call.X) >= 2
    /\ \E i \in 1..Len(pl_call.X) : pl_call.X[i] = Num(1)

RECURSIVE C5_Total(_, _, _, _)
\* The total of column c over the raw rows of size k, from position i on.
C5_Total(rows, k, c, i) ==
    IF i > Len(rows) THEN 0
    ELSE (IF rows[i].size = k THEN rows[i][c] ELSE 0) + C5_Total(rows, k, c, i + 1)

C5_Count(rows, k) == Cardinality({i \in DOMAIN rows : rows[i].size = k})

\* C5: the combined dataset holds exactly one row for each pair of a file
\* and a size observed in that file (the same size in two files gives two
\* rows) and no other row; a row's file_id is the position of its file in
\* discovery order; each covariate of a row is the arithmetic mean of that
\* covariate over the raw rows of that size in that file only; and the rows
\* are in file order.
C5_AggregationCorrect ==
    pc = "features" =>
        /\ \A f \in 1..Len(files) : \A i \in DOMAIN files[f].rows :
              Cardinality({j \in DOMAIN combined :
                              /\ combined[j].file_id = f - 1
                              /\ combined[j].size = Num(files[f].rows[i].size)}) = 1
        /\ \A j \in DOMAIN combined :
              /\ combined[j].file_id \in 0..(Len(files) - 1)
              /\ LET rows == files[combined[j].file_id + 1].rows
                     k    == combined[j].size.n
                 IN  /\ combined[j].size.k = "num" /\ combined[j].size.d = 1
                     /\ C5_Count(rows, k) > 0
                     /\ \A c \in Covariates :
                           /\ combined[j][c].k = "num"
                           /\ combined[j][c].n * C5_Count(rows, k)
                                 = C5_Total(rows, k, c, 1) * combined[j][c].d
        /\ \A i \in DOMAIN combined : \A j \in DOMAIN combined :
              i < j => combined[i].file_id <= combined[j].file_id

\* Two files that share a size, one of whose buckets averages two raw rows
\* of different depth.
C5_Witness ==
    /\ pc = "features" /\ Len(files) = 2
    /\ \E i \in DOMAIN combined : \E j \in DOMAIN combined :
          /\ combined[i].file_id = 0 /\ combined[j].file_id = 1
          /\ combined[i].size = combined[j].size
          /\ combined[i].depth.d = 2
          /\ combined[i].depth # combined[j].depth

\* The rows of the combined dataset before the filter, as (file, position).
C6_Pre == UNION {{<<f, j>> : j \in DOMAIN per_file_aggs[f]} : f \in DOMAIN per_file_aggs}

C6_Survives(p) ==
    \E i \in DOMAIN combined :
        /\ combined[i].file_id = per_file_aggs[p[1]][p[2]].file_id
        /\ combined[i].size = per_file_aggs[p[1]][p[2]].size

\* C6: after feature engineering every row has depth > 0; a row of the
\* combined dataset was dropped exactly when its depth is <= 0, whatever
\* its size; and the number of surviving rows is the sum of the per-file
\* bucket counts minus the number of dropped rows.
C6_DepthFilter ==
    pc = "models" =>
        /\ \A i \in DOMAIN combined : combined[i].depth.k = "num" /\ combined[i].depth.n > 0
        /\ \A p \in C6_Pre :
              ~C6_Survives(p) <=> per_file_aggs[p[1]][p[2]].depth.n <= 0
        /\ before = Cardinality(C6_Pre)
        /\ Len(combined) = Cardinality(C6_Pre)
              - Cardinality({p \in C6_Pre : per_file_aggs[p[1]][p[2]].depth.n <= 0})

\* A run in which a bucket of depth zero and a bucket of negative depth
\* were dropped and a bucket of size zero survived.
C6_Witness ==
    /\ pc = "models"
    /\ \E p \in C6_Pre : per_file_aggs[p[1]][p[2]].depth.n = 0
    /\ \E p \in C6_Pre : per_file_aggs[p[1]][p[2]].depth.n < 0
    /\ \E i \in DOMAIN combined : combined[i].size = Num(0)
    /\ Len(combined) < before

-----------------------------------------------------------------------------
(* cross_validate(..., n_jobs=-1) as the library runs it: one task per     *)
(* fold, each on a clone of the registered estimator and on its own rows,  *)
(* started and completed in any order (I.PY 153-176).                      *)
MaxParFiles == 6

ParFileChoices ==
    { File(<<RawRow(1, 2)>>),
      File(<<RawRow(0, 2), RawRow(2, 1), RawRow(2, 3)>>) }

\* Faulty variant: the task is handed the registry's own instance.
RegisteredObject(m, f) == registry[m]

\* The object fold f of model m works on: a new one, apart from the 13 of
\* the registry.
TaskObject(m, f) == NModels + f

NoResult == [fit_error |-> FALSE, score_error |-> FALSE, curve_failed |-> FALSE,
             test_mse |-> NaN, test_r2 |-> NaN]

\* The splits are drawn and the 5 tasks are queued, each with its clone.
Dispatch ==
    /\ pc = "eval"
    /\ mi <= NModels
    /\ tasks = <<>>
    /\ IF Cardinality(Groups(combined)) < NSplits
       THEN /\ Abort("ValueError: n_splits")
            /\ UNCHANGED <<heap, tasks>>
       ELSE LET splits == Splits(combined)
                new    == {TaskObject(mi, f) : f \in 1..NSplits}
            IN  /\ tasks' = [f \in 1..NSplits |->
                                [obj |-> TaskObject(mi, f), state |-> "queued",
                                 split |-> splits[f], result |-> NoResult]]
                /\ heap' = [o \in DOMAIN heap \cup new |->
                                IF o \in new THEN Clone(heap[registry[mi]]) ELSE heap[o]]
                /\ UNCHANGED <<pc, exit>>
    /\ UNCHANGED <<files, file_id, nread, per_file_aggs, combined, before,
                   registry, evalVars, plVars>>

\* A worker fits the task's object on the task's training rows.
FoldFit(f) ==
    /\ pc = "eval"
    /\ f \in DOMAIN tasks
    /\ tasks[f].state = "queued"
    /\ \E obj \in FitEstimator(mi, heap[tasks[f].obj], combined, tasks[f].split.train) :
          heap' = [heap EXCEPT ![tasks[f].obj] = obj]
    /\ tasks' = [tasks EXCEPT ![f].state = "fitted"]
    /\ UNCHANGED <<loadVars, registry, evalVars, plVars>>

\* The worker scores the object on the task's test rows and returns the
\* scores; the fitted clone is not kept.
FoldScore(f) ==
    /\ pc = "eval"
    /\ f \in DOMAIN tasks
    /\ tasks[f].state = "fitted"
    /\ tasks' = [tasks EXCEPT ![f].state = "done",
                              ![f].result = FoldResult(mi, heap[tasks[f].obj], combined,
                                                       tasks[f].split.test)]
    /\ heap' = [o \in DOMAIN heap \ ({tasks[f].obj} \ {registry[m] : m \in DOMAIN registry})
                    |-> heap[o]]
    /\ UNCHANGED <<loadVars, registry, evalVars, plVars>>

\* All tasks have returned: the scores are gathered in fold order.
Collect ==
    /\ pc = "eval"
    /\ tasks # <<>>
    /\ \A f \in DOMAIN tasks : tasks[f].state = "done"
    /\ Finish(WithModel(mi, Gather([f \in 1..NSplits |-> tasks[f].split],
                                   [f \in 1..NSplits |-> tasks[f].result])))
    /\ tasks' = <<>>
    /\ UNCHANGED <<files, file_id, nread, per_file_aggs, combined, before,
                   report, heap, registry, plVars>>

\* The report is printed once no cross_validate call is under way.
ReportPar == tasks = <<>> /\ Report

InitPar ==
    /\ \E fs \in {l \in SeqsUpTo(ParFileChoices, MaxParFiles) : Len(l) >= NSplits} : StartLoad(fs)
    /\ est = Unfit /\ pl_call = NoCall
    /\ IdleEval /\ IdlePar

NextPar ==
    \/ Discover \/ ReadFile \/ Combine \/ FeatureEngineering \/ DefineModels
    \/ Dispatch
    \/ \E f \in 1..NSplits : FoldFit(f)
    \/ \E f \in 1..NSplits : FoldScore(f)
    \/ Collect
    \/ ReportPar

SpecPar == InitPar /\ [][NextPar]_vars

\* C10: the tasks of a cross_validate call work on objects that are
\* distinct from one another and from the 13 instances of the registry,
\* each created unfitted; the registry's instances are never fitted or
\* modified; and whatever the order in which the folds were fitted and
\* scored, the scores gathered for a model are those of fitting and scoring
\* a fresh clone fold by fold, so the (mean, std) of MSE and R2 appended
\* for the model are those of that result.
C10_FoldsShareNoState ==
    /\ \A f \in DOMAIN tasks : \A g \in DOMAIN tasks :
          /\ tasks[f].obj \notin {registry[m] : m \in DOMAIN registry}
          /\ f # g => tasks[f].obj # tasks[g].obj
          /\ tasks[f].state = "queued" => heap[tasks[f].obj] = Fresh
          /\ tasks[f].state = "fitted" =>
                heap[tasks[f].obj].ntrain = Cardinality(tasks[f].split.train)
    /\ \A m \in DOMAIN registry : heap[registry[m]] = Fresh
    /\ (cv_res.model # 0 /\ tasks = <<>>) =>
          /\ cv_res \in CrossValidate(cv_res.model, combined)
          /\ models[cv_res.model].kind = "sklearn" =>
                Cardinality(CrossValidate(cv_res.model, combined)) = 1
          /\ pc # "aborted" =>
                /\ Len(results) >= cv_res.model
                /\ results[cv_res.model] = ResultRow(cv_res)

\* The last fold has returned its scores while the first is still queued
\* and the third is fitted but not scored.
C10_Witness ==
    /\ tasks # <<>>
    /\ tasks[NSplits].state = "done"
    /\ tasks[1].state = "queued"
    /\ tasks[3].state = "fitted"
    /\ mi > 1
    /\ \E f \in 1..NSplits : tasks[f].split.train # tasks[NSplits].split.train

-----------------------------------------------------------------------------
(* Properties of the whole pipeline.                                       *)

Terminated == pc \in {"done", "aborted"}

\* The guard of some step of the pipeline holds.
CanStep ==
    \/ pc \in {"discover", "features", "models"}
    \/ pc = "read" /\ file_id <= Len(files)
    \/ pc = "eval" /\ mi \in 1..(NModels + 1)

AllFilesWellFormed == \A f \in DOMAIN files : usecols \subseteq files[f].columns

\* The file ids that have a bucket of positive mean depth, from the raw rows.
SurvivingFileIds ==
    {f - 1 : f \in {g \in DOMAIN files :
        \E i \in DOMAIN files[g].rows :
            C5_Total(files[g].rows, files[g].rows[i].size, "depth", 1) > 0}}

C2_GroupedFolds ==
    cv_res.model # 0 =>
        /\ DOMAIN cv_res.splits = 1..NSplits
        /\ \A f \in 1..NSplits :
              LET tr == cv_res.splits[f].train
                  te == cv_res.splits[f].test
              IN  /\ {combined[i].file_id : i \in tr} \cap {combined[i].file_id : i \in te} = {}
                  /\ tr \cup te = DOMAIN combined
                  /\ tr \cap te = {}
        /\ \A g \in {combined[i].file_id : i \in DOMAIN combined} :
              Cardinality({f \in 1..NSplits :
                  \E i \in cv_res.splits[f].test : combined[i].file_id = g}) = 1

\* Folds over six groups of unequal size: one test fold holds two files.
C2_Witness ==
    /\ cv_res.model # 0
    /\ \E f \in 1..NSplits :
          Cardinality({combined[i].file_id : i \in cv_res.splits[f].test}) >= 2
    /\ \E i \in DOMAIN combined : \E j \in DOMAIN combined :
          i # j /\ combined[i].file_id = combined[j].file_id

ReportNames == {report[i].model : i \in DOMAIN report}

\* C7 as stated: each printed row's mean_test_mse is <= the next row's, also
\* when a mean_test_mse is NaN.
C7_NonDecreasingWithNaN ==
    pc = "done" =>
        /\ Len(report) = NModels
        /\ ReportNames = {models[m].name : m \in 1..NModels}
        /\ \A i \in 1..(Len(report) - 1) :
              FLeq(report[i].mean_test_mse, report[i + 1].mean_test_mse)

\* C7 amended: the report has exactly one row per evaluated model; the rows
\* whose mean_test_mse is defined come first and are non-decreasing in it,
\* and the rows whose mean_test_mse is NaN come last.
C7_SortedNaNLast ==
    pc = "done" =>
        /\ Len(report) = NModels
        /\ ReportNames = {models[m].name : m \in 1..NModels}
        /\ {report[i] : i \in DOMAIN report} = {results[i] : i \in DOMAIN results}
        /\ \A i \in DOMAIN report : \A j \in DOMAIN report :
              i < j =>
                 /\ IsNaN(report[i].mean_test_mse) => IsNaN(report[j].mean_test_mse)
                 /\ (IsNumRow(report[i]) /\ IsNumRow(report[j])) =>
                       FLeq(report[i].mean_test_mse, report[j].mean_test_mse)

\* A report with NaN rows whose order differs from the registry's and whose
\* defined means are not all equal.
C7_Witness ==
    /\ pc = "done"
    /\ report # results
    /\ \E i \in DOMAIN report : IsNaN(report[i].mean_test_mse)
    /\ \E i \in DOMAIN report : \E j \in DOMAIN report :
          FLess(report[i].mean_test_mse, report[j].mean_test_mse)

\* A library estimator raised in some fold of the last cross_validate.
LibraryEstimatorRaised ==
    /\ cv_res.model # 0
    /\ models[cv_res.model].kind = "sklearn"
    /\ \E f \in 1..NSplits : cv_res.fit_error[f] \/ cv_res.score_error[f]

C8_InputErrorsAbort ==
    /\ exit = "FileNotFoundError" => (nread = 0 /\ pc = "aborted")
    /\ files = <<>> => (report = <<>> /\ pc \in {"discover", "aborted"})
    /\ ~AllFilesWellFormed => (report = <<>> /\ pc # "done" /\ mi = 0 /\ combined = <<>>)
    /\ (Terminated /\ ~AllFilesWellFormed) => exit = "ValueError: usecols"
    /\ report # <<>> =>
          /\ pc = "done" /\ nread = Len(files) /\ AllFilesWellFormed
          /\ Len(results) = NModels /\ mi = NModels + 1
          /\ Len(report) = NModels

\* C8 as stated: no file, a missing column, or a library estimator raising
\* during its evaluation each end the process without a report.
C8_EveryErrorAborts ==
    /\ C8_InputErrorsAbort
    /\ LibraryEstimatorRaised => (pc = "aborted" /\ report = <<>>)
    /\ pc = "done" =>
          \A i \in DOMAIN results :
              models[i].kind = "sklearn" => ~IsNaN(results[i].mean_test_mse)

\* C8 amended: no file (raised before any file is read) and a missing column
\* in any file end the process without a report; a library estimator whose
\* fit raises in all 5 folds ends it without a report, while one that raises
\* in only some folds has those folds scored NaN and the evaluation goes on;
\* a report is printed only when every file was loaded and all 13 models
\* were evaluated.
C8_NoPartialReport ==
    /\ C8_InputErrorsAbort
    /\ (cv_res.model # 0 /\ \A f \in 1..NSplits : cv_res.fit_error[f]) =>
          (pc = "aborted" /\ exit = "ValueError: all fits failed" /\ report = <<>>)
    /\ (LibraryEstimatorRaised /\ \E f \in 1..NSplits : ~cv_res.fit_error[f]) =>
          /\ pc # "aborted"
          /\ Len(results) >= cv_res.model
          /\ IsNaN(results[cv_res.model].mean_test_mse)
          /\ \A f \in 1..NSplits :
                (cv_res.fit_error[f] \/ cv_res.score_error[f]) => IsNaN(cv_res.test_mse[f])

\* A report printed although a library estimator raised in four folds, and a
\* run of well-formed files read up to the last one.
C8_Witness ==
    /\ pc = "done" /\ report # <<>>
    /\ \E i \in DOMAIN results :
          models[i].kind = "sklearn" /\ IsNaN(results[i].mean_test_mse)
    /\ nread = Len(files) /\ Len(files) > NSplits

PowerLawIndex == CHOOSE m \in 1..NModels : models[m].kind = "powerlaw"

\* C9: a curve-fit failure in a fold of 'PowerLaw x/V' makes both metrics of
\* that fold NaN, hence the model's mean MSE and mean R2; the run is not
\* aborted by it, the next model is evaluated, a run in which it happened
\* can always go on until the report, and the report has all 13 rows.
C9_CurveFitFailureIsLocal ==
    /\ cv_res.model = PowerLawIndex =>
          /\ \A f \in 1..NSplits : ~cv_res.fit_error[f]
          /\ \A f \in 1..NSplits :
                cv_res.curve_failed[f] => (IsNaN(cv_res.test_mse[f]) /\ IsNaN(cv_res.test_r2[f]))
          /\ pc = "eval" /\ exit = "none" /\ mi = PowerLawIndex + 1
          /\ Len(results) = PowerLawIndex
          /\ results[PowerLawIndex].model = "PowerLaw x/V"
          /\ (\E f \in 1..NSplits : cv_res.curve_failed[f]) =>
                /\ IsNaN(results[PowerLawIndex].mean_test_mse)
                /\ IsNaN(results[PowerLawIndex].mean_test_r2)
    /\ (Len(results) >= PowerLawIndex /\ IsNaN(results[PowerLawIndex].mean_test_mse)) =>
          /\ pc \in {"eval", "done"}
          /\ pc = "eval" => CanStep
          /\ pc = "done" =>
                /\ Len(report) = NModels
                /\ \E i \in DOMAIN report :
                      report[i].model = "PowerLaw x/V" /\ IsNaN(report[i].mean_test_mse)

\* A printed report whose 'PowerLaw x/V' row is NaN while the model that
\* follows it in the registry has a defined mean.
C9_Witness ==
    /\ pc = "done" /\ Len(report) = NModels
    /\ IsNaN(results[PowerLawIndex].mean_test_mse)
    /\ ~IsNaN(results[PowerLawIndex + 1].mean_test_mse)

====
